---- MODULE Spec2Model ----
(***************************************************************************)
(* The Gradio handlers of icebreaker-bot/app.py: process_profile and       *)
(* chat_with_profile, and the dictionary active_indices they share.        *)
(*                                                                         *)
(* Gradio runs plain (non-async) handlers on a thread pool, so invocations *)
(* interleave: each worker runs one invocation at a time, one statement    *)
(* (with the test that follows it) per step.  The functions imported from  *)
(* modules.* are not part of app.py; every call to one of them returns a   *)
(* non-empty value, returns an empty value, or raises.  config.LLM_MODEL_ID *)
(* starts as either of the models the interface offers.                    *)
(***************************************************************************)
EXTENDS Integers, Sequences, FiniteSets, TLC

\* ------------------------------------------------------------- bounds
\* Invocations of either handler over a run.
MaxCalls == 3

\* ------------------------------------------------------ python values
None == [t |-> "None"]
Str(s) == [t |-> "str", v |-> s]
\* A str held as the sequence of its characters.
Chars(s) == [t |-> "chars", v |-> s]
List(s) == [t |-> "list", v |-> s]
\* The index object create_vector_database built in invocation n, while
\* model m was the one selected by that invocation.
Index(n, m) == [t |-> "index", call |-> n, selected |-> m]

\* Python truthiness of the values the handlers test with `not`.
Truthy(x) ==
  CASE x.t = "None" -> FALSE
    [] x.t = "str" -> x.v # ""
    [] x.t = "chars" -> x.v # <<>>
    [] x.t = "list" -> x.v # <<>>
    [] OTHER -> TRUE

Workers == {"w1", "w2"}

AvailableModels == {"ibm/granite-3-2-8b-instruct", "meta-llama/llama-3-3-70b-instruct"}
MockUrl == "https://www.linkedin.com/in/leonkatsnelson/"

VARIABLES
  active_indices,  \* session id -> index
  LLM_MODEL_ID,    \* config.LLM_MODEL_ID
  llm_model,       \* the model change_llm_model last switched to
  uuids,           \* how many ids uuid.uuid4() has handed out
  ncalls,          \* handler invocations so far
  frame,           \* per worker: the invocation it runs, its locals
  returned,        \* session id process_profile returned -> the index it built
  last_selected    \* selected_model of the latest process_profile call
                   \* that got past its model change

vars == <<active_indices, LLM_MODEL_ID, llm_model, uuids, ncalls, frame,
          returned, last_selected>>

\* ------------------------------------------------- the imported modules
\* What a call into modules.* can do: return a non-empty value, return an
\* empty one (None, "", [], {}), or raise.
Outcomes == {"value", "empty", "raise"}
\* str(e) of the exception a failing call to fn raises.
ExcMsg(fn) == fn \o " failed"

\* modules.llm_interface.change_llm_model(m): m becomes the model in effect
\* and the value of config.LLM_MODEL_ID, which line 43 compares the next
\* selection with ("Change LLM model if needed").
ChangeLlmModel(m) == [llm_model |-> m, LLM_MODEL_ID |-> m]

\* response.response of answer_user_query(index, user_query).
ResponseText(index) == Str("answer from index " \o ToString(index.call))

\* ------------------------------------------------------------- inputs
\* What the handlers are called with.  In the concurrent specification the
\* values that only travel to extract_linkedin_profile, and the chat
\* history, are fixed.
Inputs ==
  [urls |-> {None, Str(""), Str("https://www.linkedin.com/in/someone/")},
   keys |-> {Str(""), Str("key")},
   mocks |-> BOOLEAN,
   queries |-> {None, Chars(<<>>), Chars(<<" ">>), Chars(<<"a">>), Chars(<<" ", "a">>)},
   histories |-> {None, List(<<>>),
                  List(<<List(<<Chars(<<"a">>), Str("an earlier answer")>>)>>)}]

ConcurrentInputs ==
  [urls |-> {Str("")},
   keys |-> {Str("key")},
   mocks |-> {TRUE},
   queries |-> {Chars(<<" ">>), Chars(<<"a">>)},
   histories |-> {List(<<>>)}]

IdleFrame == [op |-> "idle"]
Busy(w) == frame[w].op # "idle"
At(w, op, pc) == frame[w].op = op /\ frame[w].pc = pc
\* The pool hands a request to its first free worker.
Free(w) == ~Busy(w) /\ (w = "w1" \/ Busy("w1"))
\* trace lists the imported functions an invocation has called so far.
Called(f, fn) == [f EXCEPT !.trace = Append(@, fn)]
\* The call to fn raised: exc is the exception in flight.
Raised(f, fn) == [f EXCEPT !.exc = Str(ExcMsg(fn))]

\* ------------------------------------------------------ process_profile
\* The locals of a fresh process_profile invocation; stores counts its
\* writes to active_indices.
ProcessFrame(n, url, key, mock, model) ==
  [op |-> "process_profile", pc |-> "L43", call |-> n,
   linkedin_url |-> url, api_key |-> key, use_mock |-> mock,
   selected_model |-> model, extract_args |-> None,
   profile_data |-> None, nodes |-> None, index |-> None,
   verified |-> None, facts |-> None, session_id |-> None,
   trace |-> <<>>, exc |-> None, stores |-> 0, result |-> None]

\* The selected model compared with a hard-coded default.
ModelDiffersFromDefault(selected, cfg) == selected # "ibm/granite-3-2-8b-instruct"

\* Line 43: selected_model != config.LLM_MODEL_ID
ModelDiffers(selected, cfg) == selected # cfg

\* The user's key handed on whatever the mock flag says.
ExtractArgsKeepKey(url, key, mock) ==
  [linkedin_url |-> IF mock /\ ~Truthy(url) THEN Str(MockUrl) ELSE url,
   api_key |-> key,
   mock |-> mock]

\* Lines 47-55: what extract_linkedin_profile is called with.
ExtractArgs(url, key, mock) ==
  [linkedin_url |-> IF mock /\ ~Truthy(url) THEN Str(MockUrl) ELSE url,
   api_key |-> IF ~mock THEN key ELSE None,
   mock |-> mock]

\* An id generator that repeats itself.
Uuid4Fixed(n) == Str("uuid-1")

\* Line 80: str(uuid.uuid4()), the n-th id handed out; uuid4 ids are unique.
Uuid4(n) == Str("uuid-" \o ToString(n))

\* Session ids a caller can send: none, the empty textbox, one that was
\* never issued, and every id uuid4 has produced so far.
SessionIds == {None, Str(""), Str("unknown")} \cup {Uuid4(k) : k \in 1..uuids}

\* A store that rebinds the dictionary: the other sessions are lost.
StoreIndexAlone(ai, sid, idx) == [k \in {sid} |-> idx]

\* Line 83: active_indices[session_id] = index
StoreIndex(ai, sid, idx) ==
  [k \in DOMAIN ai \cup {sid} |-> IF k = sid THEN idx ELSE ai[k]]

\* Lines 58, 64, 70: return "<failure message>", None
Failed(f, text) == [f EXCEPT !.pc = "done", !.result = <<Str(text), None>>]

\* No handler: the exception leaves process_profile.
ProcessReraise(f) == [f EXCEPT !.pc = "raised"]

\* Lines 88-90: except Exception as e: return f"Error: {str(e)}", None
ProcessExcept(f) ==
  [f EXCEPT !.pc = "done", !.result = <<Str("Error: " \o f.exc.v), None>>]

\* The success message returned without the session id.
SucceededWithoutId(f) ==
  [f EXCEPT !.pc = "done",
            !.result = <<Str("Profile processed successfully!\n\nHere are 3 interesting facts about this person:\n\n" \o f.facts.v), None>>]

\* Line 86: return f"Profile processed successfully!...{facts}", session_id
Succeeded(f) ==
  [f EXCEPT !.pc = "done",
            !.result = <<Str("Profile processed successfully!\n\nHere are 3 interesting facts about this person:\n\n" \o f.facts.v), f.session_id>>]

\* process_profile is invoked (line 29) and tests the selected model (43).
CallProcessProfile(w, in) ==
  /\ Free(w)
  /\ ncalls < MaxCalls
  /\ \E url \in in.urls, key \in in.keys, mock \in in.mocks, model \in AvailableModels :
       /\ frame' = [frame EXCEPT ![w] =
            [ProcessFrame(ncalls + 1, url, key, mock, model) EXCEPT
               !.pc = IF ModelDiffers(model, LLM_MODEL_ID) THEN "L44" ELSE "L47"]]
       /\ last_selected' = IF ModelDiffers(model, LLM_MODEL_ID) THEN last_selected ELSE model
  /\ ncalls' = ncalls + 1
  /\ UNCHANGED <<active_indices, LLM_MODEL_ID, llm_model, uuids, returned>>

\* Line 44: change_llm_model(selected_model)
ChangeModel(w) ==
  /\ At(w, "process_profile", "L44")
  /\ LET f == Called(frame[w], "change_llm_model") IN
     \E o \in {"value", "raise"} :
       IF o = "raise"
       THEN /\ frame' = [frame EXCEPT ![w] = ProcessExcept(Raised(f, "change_llm_model"))]
            /\ UNCHANGED <<LLM_MODEL_ID, llm_model, last_selected>>
       ELSE /\ frame' = [frame EXCEPT ![w] = [f EXCEPT !.pc = "L47"]]
            /\ llm_model' = ChangeLlmModel(f.selected_model).llm_model
            /\ LLM_MODEL_ID' = ChangeLlmModel(f.selected_model).LLM_MODEL_ID
            /\ last_selected' = f.selected_model
  /\ UNCHANGED <<active_indices, uuids, ncalls, returned>>

\* Lines 47-58: extract_linkedin_profile(...), then `if not profile_data`.
Extract(w) ==
  /\ At(w, "process_profile", "L47")
  /\ LET f0 == frame[w]
         f == [Called(f0, "extract_linkedin_profile") EXCEPT
                 !.extract_args = ExtractArgs(f0.linkedin_url, f0.api_key, f0.use_mock)] IN
     \E o \in Outcomes :
       frame' = [frame EXCEPT ![w] =
         CASE o = "raise" -> ProcessExcept(Raised(f, "extract_linkedin_profile"))
           [] o = "empty" -> Failed(f, "Failed to retrieve profile data. Please check the URL or API key.")
           [] OTHER -> [f EXCEPT !.pc = "L61", !.profile_data = Str("profile")]]
  /\ UNCHANGED <<active_indices, LLM_MODEL_ID, llm_model, uuids, ncalls, returned, last_selected>>

\* Lines 61-64: split_profile_data(profile_data), then `if not nodes`.
Split(w) ==
  /\ At(w, "process_profile", "L61")
  /\ LET f == Called(frame[w], "split_profile_data") IN
     \E o \in Outcomes :
       frame' = [frame EXCEPT ![w] =
         CASE o = "raise" -> ProcessExcept(Raised(f, "split_profile_data"))
           [] o = "empty" -> Failed([f EXCEPT !.nodes = List(<<>>)], "Failed to process profile data into nodes.")
           [] OTHER -> [f EXCEPT !.pc = "L67", !.nodes = List(<<Str("node")>>)]]
  /\ UNCHANGED <<active_indices, LLM_MODEL_ID, llm_model, uuids, ncalls, returned, last_selected>>

\* create_vector_database without the `if not index` test after it.
CreateIndexUnchecked(w) ==
  /\ At(w, "process_profile", "L67")
  /\ LET f == Called(frame[w], "create_vector_database") IN
     \E o \in Outcomes :
       frame' = [frame EXCEPT ![w] =
         CASE o = "raise" -> ProcessExcept(Raised(f, "create_vector_database"))
           [] o = "empty" -> [f EXCEPT !.pc = "L73"]
           [] OTHER -> [f EXCEPT !.pc = "L73", !.index = Index(f.call, f.selected_model)]]
  /\ UNCHANGED <<active_indices, LLM_MODEL_ID, llm_model, uuids, ncalls, returned, last_selected>>

\* Lines 67-70: create_vector_database(nodes), then `if not index`.
CreateIndex(w) ==
  /\ At(w, "process_profile", "L67")
  /\ LET f == Called(frame[w], "create_vector_database") IN
     \E o \in Outcomes :
       frame' = [frame EXCEPT ![w] =
         CASE o = "raise" -> ProcessExcept(Raised(f, "create_vector_database"))
           [] o = "empty" -> Failed(f, "Failed to create vector database.")
           [] OTHER -> [f EXCEPT !.pc = "L73", !.index = Index(f.call, f.selected_model)]]
  /\ UNCHANGED <<active_indices, LLM_MODEL_ID, llm_model, uuids, ncalls, returned, last_selected>>

\* Lines 73-74: `if not verify_embeddings(index)`: only a warning is logged.
Verify(w) ==
  /\ At(w, "process_profile", "L73")
  /\ LET f == Called(frame[w], "verify_embeddings") IN
     \E o \in Outcomes :
       frame' = [frame EXCEPT ![w] =
         CASE o = "raise" -> ProcessExcept(Raised(f, "verify_embeddings"))
           [] o = "empty" -> [f EXCEPT !.pc = "L77", !.verified = [t |-> "bool", v |-> FALSE]]
           [] OTHER -> [f EXCEPT !.pc = "L77", !.verified = [t |-> "bool", v |-> TRUE]]]
  /\ UNCHANGED <<active_indices, LLM_MODEL_ID, llm_model, uuids, ncalls, returned, last_selected>>

\* Line 77: facts = generate_initial_facts(index); the result is not tested.
GenerateFacts(w) ==
  /\ At(w, "process_profile", "L77")
  /\ LET f == Called(frame[w], "generate_initial_facts") IN
     \E o \in Outcomes :
       frame' = [frame EXCEPT ![w] =
         CASE o = "raise" -> ProcessExcept(Raised(f, "generate_initial_facts"))
           [] o = "empty" -> [f EXCEPT !.pc = "L80", !.facts = Str("")]
           [] OTHER -> [f EXCEPT !.pc = "L80", !.facts = Str("facts")]]
  /\ UNCHANGED <<active_indices, LLM_MODEL_ID, llm_model, uuids, ncalls, returned, last_selected>>

\* Line 80: session_id = str(uuid.uuid4())
NewSessionId(w) ==
  /\ At(w, "process_profile", "L80")
  /\ uuids' = uuids + 1
  /\ frame' = [frame EXCEPT ![w] = [@ EXCEPT !.pc = "L83", !.session_id = Uuid4(uuids + 1)]]
  /\ UNCHANGED <<active_indices, LLM_MODEL_ID, llm_model, ncalls, returned, last_selected>>

\* Lines 83-86: the index is stored under the session id, and the facts and
\* the session id are returned.
StoreAndReturn(w) ==
  /\ At(w, "process_profile", "L83")
  /\ LET f == frame[w] IN
     /\ active_indices' = StoreIndex(active_indices, f.session_id, f.index)
     /\ frame' = [frame EXCEPT ![w] = Succeeded([f EXCEPT !.stores = @ + 1])]
  /\ UNCHANGED <<LLM_MODEL_ID, llm_model, uuids, ncalls, returned, last_selected>>

\* ---------------------------------------------------- chat_with_profile
Whitespace == {" ", "\t", "\n"}

RECURSIVE LStrip(_)
LStrip(cs) == IF cs # <<>> /\ Head(cs) \in Whitespace THEN LStrip(Tail(cs)) ELSE cs

RECURSIVE RStrip(_)
RStrip(cs) ==
  IF cs # <<>> /\ cs[Len(cs)] \in Whitespace THEN RStrip(SubSeq(cs, 1, Len(cs) - 1)) ELSE cs

\* str.strip()
Strip(q) == Chars(RStrip(LStrip(q.v)))

\* A python list [a, b]
Pair(a, b) == List(<<a, b>>)

\* chat_history.append(entry): the caller's list grows in place.
ListAppendInPlace(h, entry) ==
  IF h.t = "list"
  THEN [ok |-> TRUE, value |-> List(Append(h.v, entry)), input |-> List(Append(h.v, entry))]
  ELSE [ok |-> FALSE, value |-> None, input |-> h]

\* chat_history + [entry]: a new list; a TypeError when chat_history is None.
\* `input` is the caller's list object after the operation.
ListPlus(h, entry) ==
  IF h.t = "list"
  THEN [ok |-> TRUE, value |-> List(Append(h.v, entry)), input |-> h]
  ELSE [ok |-> FALSE, value |-> None, input |-> h]

\* The blank-query test ahead of the session tests.
ChatGuardsBlankFirst(sid, q, ai) ==
  CASE q = None -> "AttributeError"
    [] ~Truthy(Strip(q)) -> "blank"
    [] ~Truthy(sid) -> "no profile"
    [] sid \notin DOMAIN ai -> "expired"
    [] OTHER -> "answer"

\* Lines 103-110: which of the tests in front of the try block applies.
ChatGuards(sid, q, ai) ==
  CASE ~Truthy(sid) -> "no profile"
    [] sid \notin DOMAIN ai -> "expired"
    [] q = None -> "AttributeError"
    [] ~Truthy(Strip(q)) -> "blank"
    [] OTHER -> "answer"

ChatFrame(n, sid, q, h) ==
  [op |-> "chat_with_profile", pc |-> "L103", call |-> n,
   session_id |-> sid, user_query |-> q, chat_history |-> h,
   history_at_call |-> h, returned_at_call |-> sid \in DOMAIN returned,
   branch |-> "", index |-> None, queried |-> None,
   trace |-> <<>>, exc |-> None, result |-> None]

\* return chat_history + [[user_query, text]] outside the try block: the
\* TypeError of a None history leaves the handler.
ReturnAppended(f, text) ==
  LET r == ListPlus(f.chat_history, Pair(f.user_query, Str(text))) IN
  IF r.ok
  THEN [f EXCEPT !.pc = "done", !.result = r.value, !.chat_history = r.input]
  ELSE [f EXCEPT !.pc = "raised", !.exc = Str("TypeError")]

\* Lines 122-124: except Exception as e: return chat_history + [[user_query,
\* f"Error: {str(e)}"]]
ChatExcept(f) == ReturnAppended(f, "Error: " \o f.exc.v)

\* Line 120: return chat_history + [[user_query, response.response]], inside
\* the try block.
ReturnAnswer(f, text) ==
  LET r == ListPlus(f.chat_history, Pair(f.user_query, text)) IN
  IF r.ok
  THEN [f EXCEPT !.pc = "done", !.result = r.value, !.chat_history = r.input]
  ELSE ChatExcept([f EXCEPT !.exc = Str("TypeError")])

\* chat_with_profile is invoked (line 92) and runs the tests of lines 103-110.
CallChatWithProfile(w, in) ==
  /\ Free(w)
  /\ ncalls < MaxCalls
  /\ \E sid \in SessionIds, q \in in.queries, h \in in.histories :
       LET b == ChatGuards(sid, q, active_indices)
           f == [ChatFrame(ncalls + 1, sid, q, h) EXCEPT !.branch = b] IN
       frame' = [frame EXCEPT ![w] =
         CASE b = "no profile" -> ReturnAppended(f, "No profile loaded. Please process a LinkedIn profile first.")
           [] b = "expired" -> ReturnAppended(f, "Session expired. Please process the LinkedIn profile again.")
           [] b = "AttributeError" -> [f EXCEPT !.pc = "raised", !.exc = Str("AttributeError")]
           [] b = "blank" -> [f EXCEPT !.pc = "done", !.result = f.chat_history]
           [] OTHER -> [f EXCEPT !.pc = "L114"]]
  /\ ncalls' = ncalls + 1
  /\ UNCHANGED <<active_indices, LLM_MODEL_ID, llm_model, uuids, returned, last_selected>>

\* Line 114: index = active_indices[session_id]
Lookup(w) ==
  /\ At(w, "chat_with_profile", "L114")
  /\ LET f == frame[w] IN
     frame' = [frame EXCEPT ![w] =
       IF f.session_id \in DOMAIN active_indices
       THEN [f EXCEPT !.pc = "L117", !.index = active_indices[f.session_id]]
       ELSE ChatExcept([f EXCEPT !.exc = Str("KeyError")])]
  /\ UNCHANGED <<active_indices, LLM_MODEL_ID, llm_model, uuids, ncalls, returned, last_selected>>

\* Lines 117-124: answer_user_query(index, user_query) and the reply.
Answer(w) ==
  /\ At(w, "chat_with_profile", "L117")
  /\ LET f == [Called(frame[w], "answer_user_query") EXCEPT !.queried = frame[w].index] IN
     \E o \in Outcomes :
       frame' = [frame EXCEPT ![w] =
         CASE o = "raise" -> ChatExcept(Raised(f, "answer_user_query"))
           [] o = "empty" -> ReturnAnswer(f, Str(""))
           [] OTHER -> ReturnAnswer(f, ResponseText(f.index))]
  /\ UNCHANGED <<active_indices, LLM_MODEL_ID, llm_model, uuids, ncalls, returned, last_selected>>

\* ------------------------------------------------------------ the system
\* The handler's return value (or its exception) reaches Gradio and the
\* worker is free again.
Finish(w) ==
  /\ Busy(w)
  /\ frame[w].pc \in {"done", "raised"}
  /\ frame' = [frame EXCEPT ![w] = IdleFrame]
  /\ returned' = IF frame[w].op = "process_profile" /\ frame[w].result[2] # None
                 THEN [s \in DOMAIN returned \cup {frame[w].result[2]} |->
                        IF s = frame[w].result[2] THEN frame[w].index ELSE returned[s]]
                 ELSE returned
  /\ UNCHANGED <<active_indices, LLM_MODEL_ID, llm_model, uuids, ncalls, last_selected>>

Init ==
  /\ active_indices = <<>>
  /\ LLM_MODEL_ID \in AvailableModels
  /\ llm_model = LLM_MODEL_ID
  /\ uuids = 0
  /\ ncalls = 0
  /\ frame = [w \in Workers |-> IdleFrame]
  /\ returned = <<>>
  /\ last_selected = LLM_MODEL_ID

Step(w, in) ==
  \/ CallProcessProfile(w, in)
  \/ ChangeModel(w)
  \/ Extract(w)
  \/ Split(w)
  \/ CreateIndex(w)
  \/ Verify(w)
  \/ GenerateFacts(w)
  \/ NewSessionId(w)
  \/ StoreAndReturn(w)
  \/ CallChatWithProfile(w, in)
  \/ Lookup(w)
  \/ Answer(w)
  \/ Finish(w)

\* One handler at a time, every input.
Next == Step("w1", Inputs)

Spec == Init /\ [][Next]_vars

\* Two Gradio workers run handlers at once.
ConcurrentNext == \E w \in Workers : Step(w, ConcurrentInputs)

SpecConcurrent == Init /\ [][ConcurrentNext]_vars

\* ------------------------------------------------------------- claims
ProcessFrames == {frame[w] : w \in {v \in Workers : frame[v].op = "process_profile"}}
ChatFrames == {frame[w] : w \in {v \in Workers : frame[v].op = "chat_with_profile"}}
Expired == Str("Session expired. Please process the LinkedIn profile again.")
NoProfile == Str("No profile loaded. Please process a LinkedIn profile first.")
\* A query that is a str with a character other than whitespace.
NonBlank(q) == q.t = "chars" /\ \E i \in 1..Len(q.v) : q.v[i] \notin Whitespace
\* The reply of the entry a chat invocation appended last.
LastReply(f) == f.result.v[Len(f.result.v)].v[2]

\* C1: a session id process_profile has returned stays a key of
\* active_indices, mapped to the index that call built; a chat called with
\* such an id and a non-blank query reaches answer_user_query with that index
\* and never replies "Session expired".
C1_SessionsPersist ==
  /\ \A s \in DOMAIN returned :
       s \in DOMAIN active_indices /\ active_indices[s] = returned[s]
  /\ \A f \in ProcessFrames :
       (f.pc = "done" /\ f.result[2] # None) =>
         /\ f.result[2] \in DOMAIN active_indices
         /\ active_indices[f.result[2]] = f.index
  /\ \A f \in ChatFrames :
       (f.returned_at_call /\ NonBlank(f.user_query)) =>
         /\ f.pc \in {"L114", "L117"} \/ f.queried = returned[f.session_id]
         /\ f.index \in {None, returned[f.session_id]}
         /\ f.pc = "done" => LastReply(f) # Expired

\* A chat on a session returned earlier has been answered from its index
\* while a later session was stored beside it.
C1_Witness ==
  \E f \in ChatFrames :
    /\ f.returned_at_call /\ NonBlank(f.user_query) /\ f.pc = "done"
    /\ LastReply(f) = ResponseText(returned[f.session_id])
    /\ \E s \in DOMAIN active_indices : active_indices[s].call > returned[f.session_id].call

\* C2: a step of process_profile changes active_indices exactly when it is
\* the step that returns a session id, and then by adding that one new id,
\* mapped to the index the call built; a call that returns None as the
\* session id has left active_indices as it was.
C2_StoresIffSessionReturned ==
  [][\A w \in Workers :
       LET f == frame[w]
           g == frame'[w] IN
       (g.op = "process_profile" /\ g # f) =>
         IF g.pc = "done" /\ g.result[2] # None
         THEN /\ g.result[2] \notin DOMAIN active_indices
              /\ DOMAIN active_indices' = DOMAIN active_indices \cup {g.result[2]}
              /\ active_indices'[g.result[2]] = g.index
              /\ g.index.call = g.call
              /\ \A k \in DOMAIN active_indices : active_indices'[k] = active_indices[k]
         ELSE active_indices' = active_indices]_vars

\* A call has returned a session id, added beside an earlier session, after
\* another call returned None.
C2_Witness ==
  \E f \in ProcessFrames :
    /\ f.pc = "done" /\ f.result[2] # None
    /\ Cardinality(DOMAIN active_indices) = 2
    /\ f.call = 3

\* C3: with use_mock the extractor is called in mock mode with api_key None,
\* and an empty linkedin_url becomes the fixed default URL; without use_mock
\* the URL and the key are passed on unchanged, with mock false.
C3_MockArguments ==
  \A f \in ProcessFrames :
    "extract_linkedin_profile" \in {f.trace[i] : i \in 1..Len(f.trace)} =>
      LET a == f.extract_args IN
      IF f.use_mock
      THEN /\ a.mock = TRUE
           /\ a.api_key = None
           /\ a.linkedin_url = IF f.linkedin_url \in {None, Str("")}
                               THEN Str("https://www.linkedin.com/in/leonkatsnelson/")
                               ELSE f.linkedin_url
      ELSE /\ a.mock = FALSE
           /\ a.api_key = f.api_key
           /\ a.linkedin_url = f.linkedin_url

\* The extractor was called in mock mode although the user entered a key and
\* no URL.
C3_Witness ==
  \E f \in ProcessFrames :
    /\ f.use_mock /\ f.api_key = Str("key") /\ f.linkedin_url = Str("")
    /\ f.extract_args # None
    /\ f.extract_args.api_key = None

\* C4: no exception leaves process_profile; when a call of the pipeline has
\* raised, the invocation returns ("Error: <message>", None) and has stored
\* no session.
C4_ProcessCatchesAll ==
  \A f \in ProcessFrames :
    /\ f.pc # "raised"
    /\ f.exc # None =>
         /\ f.pc = "done"
         /\ f.result = <<Str("Error: " \o f.exc.v), None>>
         /\ f.stores = 0
         /\ \A s \in DOMAIN active_indices : active_indices[s].call # f.call

\* generate_initial_facts, the last call of the pipeline, raised after the
\* index was built.
C4_Witness ==
  \E f \in ProcessFrames :
    /\ f.exc = Str("generate_initial_facts failed")
    /\ f.index # None
    /\ f.pc = "done"

\* A query that is a str of whitespace only (or empty).
Blank(q) == q.t = "chars" /\ \A i \in 1..Len(q.v) : q.v[i] \in Whitespace
\* What an invocation returns when it appends the reply text to the history
\* it was called with.
Appended(f, text) == List(Append(f.history_at_call.v, List(<<f.user_query, text>>)))

\* C5: chat_with_profile returns a history for every input, None inputs
\* included, and no exception leaves it; when answering fails the history
\* returned is the old one with [user_query, "Error: <message>"] appended.
C5_ChatNeverRaises ==
  \A f \in ChatFrames :
    /\ f.pc # "raised"
    /\ (f.pc = "done" /\ f.exc # None) =>
         f.result = Appended(f, Str("Error: " \o f.exc.v))

\* C6: the tests run in the order empty session id, unknown session id,
\* blank query: the first two append their reply whatever the query is, a
\* blank query is dropped only for a known session, and answer_user_query is
\* called only for a known session with a non-blank query.
C6_GuardOrder ==
  \A f \in ChatFrames :
    LET empty == f.session_id \in {None, Str("")}
        known == f.session_id \in DOMAIN active_indices
        gives(text) == f.history_at_call.t = "list" =>
                         f.pc = "done" /\ f.result = Appended(f, text) IN
    /\ empty => gives(NoProfile)
    /\ (~empty /\ ~known) => gives(Expired)
    /\ (~empty /\ known /\ Blank(f.user_query)) =>
         f.pc = "done" /\ f.result = f.history_at_call
    /\ (f.pc \in {"L114", "L117"} \/ f.trace # <<>>) =>
         ~empty /\ known /\ NonBlank(f.user_query)
    /\ f.trace \in {<<>>, <<"answer_user_query">>}

\* A blank query sent with an unknown session id got the "Session expired"
\* entry appended.
C6_Witness ==
  \E f \in ChatFrames :
    /\ f.session_id = Str("unknown") /\ f.user_query = Chars(<<" ">>)
    /\ f.pc = "done"
    /\ f.result = Appended(f, Expired)
    /\ active_indices # <<>>

Pipeline ==
  <<"extract_linkedin_profile", "split_profile_data", "create_vector_database",
    "verify_embeddings", "generate_initial_facts">>
FailureText ==
  <<"Failed to retrieve profile data. Please check the URL or API key.",
    "Failed to process profile data into nodes.",
    "Failed to create vector database.">>
\* The pipeline calls of an invocation: its trace without the model change.
Steps(f) == IF f.trace # <<>> /\ Head(f.trace) = "change_llm_model" THEN Tail(f.trace) ELSE f.trace

\* What C7 says of every call but generate_initial_facts: the calls are made
\* in pipeline order, each of the first three after non-empty results only;
\* an empty result of one of them ends the invocation with its failure text;
\* a verify_embeddings that fails does not stop it; the index is stored
\* after generate_initial_facts has returned, and only then.
PipelineOrder(f) ==
  LET n == Len(Steps(f)) IN
  /\ n <= Len(Pipeline) /\ Steps(f) = SubSeq(Pipeline, 1, n)
  /\ n >= 2 => Truthy(f.profile_data)
  /\ n >= 3 => Truthy(f.nodes)
  /\ n >= 4 => Truthy(f.index)
  /\ \A k \in 1..3 :
       (f.pc = "done" /\ f.exc = None /\ n = k) => f.result = <<Str(FailureText[k]), None>>
  /\ (n = 4 /\ f.exc = None) => f.pc = "L77" /\ f.verified # None
  /\ (f.session_id # None \/ f.stores > 0) => n = 5 /\ f.facts # None /\ f.exc = None

\* C7 as claimed: beyond the order, the session is stored only if every
\* earlier call but verify_embeddings returned a non-empty result.
C7_StrictPipeline ==
  \A f \in ProcessFrames :
    /\ PipelineOrder(f)
    /\ f.stores > 0 =>
         Truthy(f.profile_data) /\ Truthy(f.nodes) /\ Truthy(f.index) /\ Truthy(f.facts)

\* C7, amended: the same order, with generate_initial_facts untested like
\* verify_embeddings: once it has returned, empty or not, the session is
\* stored and the success text returned.
C7_PipelineOrder ==
  \A f \in ProcessFrames :
    /\ PipelineOrder(f)
    /\ f.stores > 0 => Truthy(f.profile_data) /\ Truthy(f.nodes) /\ Truthy(f.index)
    /\ f.facts # None =>
         \/ f.pc \in {"L80", "L83"} /\ f.stores = 0
         \/ f.pc = "done" /\ f.stores = 1 /\ f.result[2] = f.session_id /\ f.session_id # None

\* A session was stored although verify_embeddings failed and the facts came
\* back empty.
C7_Witness ==
  \E f \in ProcessFrames :
    /\ f.pc = "done" /\ f.stores = 1
    /\ f.verified = [t |-> "bool", v |-> FALSE]
    /\ f.facts = Str("")
    /\ f.result[2] \in DOMAIN active_indices

\* C8: no step of chat_with_profile changes active_indices; the history it
\* returns is the one it was called with, followed by nothing or by one
\* entry whose first element is the query; the caller's list is untouched.
C8_ChatFrame ==
  [][\A w \in Workers :
       LET g == frame'[w] IN
       (g.op = "chat_with_profile" /\ g # frame[w]) =>
         /\ active_indices' = active_indices
         /\ g.chat_history = g.history_at_call
         /\ g.pc = "done" =>
              \/ g.result = g.history_at_call
              \/ /\ g.history_at_call.t = "list" /\ g.result.t = "list"
                 /\ Len(g.result.v) = Len(g.history_at_call.v) + 1
                 /\ SubSeq(g.result.v, 1, Len(g.history_at_call.v)) = g.history_at_call.v
                 /\ g.result.v[Len(g.result.v)].v[1] = g.user_query]_vars

\* An answer was appended to a history that already held an entry.
C8_Witness ==
  \E f \in ChatFrames :
    /\ f.pc = "done" /\ f.queried # None /\ f.exc = None
    /\ Len(f.history_at_call.v) = 1
    /\ Len(f.result.v) = 2

\* Every session id generated so far, with the index of the call it is for.
Issued ==
  {<<f.session_id, f.index>> : f \in {g \in ProcessFrames : g.session_id # None}}
    \cup {<<s, returned[s]>> : s \in DOMAIN returned}

\* C9: with handlers interleaved, calls get distinct session ids, an entry of
\* active_indices is the index of the call its id was generated in, no two
\* ids share an index, and a chat is answered with the index stored under
\* its own session id.
C9_SessionsIsolated ==
  /\ \A p, q \in Issued : p[1] = q[1] => p[2] = q[2]
  /\ \A p \in Issued : p[1] \in DOMAIN active_indices => active_indices[p[1]] = p[2]
  /\ \A s, t \in DOMAIN active_indices :
       s # t => active_indices[s].call # active_indices[t].call
  /\ \A f \in ChatFrames :
       /\ f.index # None => f.index = active_indices[f.session_id]
       /\ f.queried # None => f.queried = active_indices[f.session_id]
       /\ (f.pc = "done" /\ f.queried # None /\ f.exc = None) =>
            LastReply(f) \in {ResponseText(active_indices[f.session_id]), Str("")}

\* A chat was answered from its session while the other worker stored
\* another session.
C9_Witness ==
  \E f \in ChatFrames, g \in ProcessFrames :
    /\ f.pc = "done" /\ f.queried # None
    /\ LastReply(f) = ResponseText(active_indices[f.session_id])
    /\ g.pc = "done" /\ g.result[2] # None /\ g.result[2] # f.session_id
    /\ g.call < f.call

====
